---- MODULE Spec2Model ----
(***************************************************************************)
(* Package-to-plugin link reconciler of unreal-package-manager             *)
(* (src/main/uePluginLinker.ts, the later revision, types.ts:304-609).     *)
(*                                                                         *)
(* State: the installation root (node_modules), the destination directory  *)
(* (<Project>/Plugins) with one entry per plugin name, the manifest file   *)
(* .uenpmmanager_links.json, and the record of the sync run that has just  *)
(* completed.  syncUePluginLinks is one action; filesystem failures are    *)
(* inputs of the action.                                                   *)
(***************************************************************************)
EXTENDS Integers, Sequences, FiniteSets, TLC

VARIABLES
  platform,       \* process.platform: "posix" or "win32", fixed for a behaviour
  installed,      \* packages present under <workDir>/node_modules
  destDirExists,  \* whether <destinationDir> exists
  dest,           \* <destinationDir>/<name>, one entry per plugin name
  hasManifest,    \* whether the manifest file exists
  manifest,       \* the "links" array of the manifest file, << >> when absent
  run,            \* record of the sync run that has just completed, or NoRun
  nRuns,          \* number of sync runs so far
  nEnv,           \* number of environment steps so far
  pm,             \* main process: AppSettings and the last package operation
  ui,             \* renderer: busy key, auto-sync key and the IPC calls in flight
  nodeModules,    \* a concrete layout of <workDir>/node_modules, or NoLayout
  scanned,        \* what discovery returned on that layout, or NotScanned
  copied,         \* what copy mode wrote for one discovered plugin, or NotCopied
  manifestFile    \* the raw content of the manifest file, or NoRawFile

vars == <<platform, installed, destDirExists, dest, hasManifest, manifest, run, nRuns, nEnv, pm, ui,
          nodeModules, scanned, copied, manifestFile>>

\* the variables of the concrete discovery, copy and manifest-file examinations
labVars == <<nodeModules, scanned, copied, manifestFile>>

(* Bounds of the exploration. *)
MaxSyncRuns == 3
MaxEnvSteps == 4
MaxPmOps == 2
MaxUiCalls == 3

(***************************************************************************)
(* The installation root.  PkgOrder is the order in which readdir lists    *)
(* node_modules; Descriptors(pkg) are the *.uplugin files at the root of   *)
(* the package, in readdir order, with the extension stripped.             *)
(***************************************************************************)
Plugins == {"Foo", "Bar"}
PkgOrder == <<"pkg-a", "pkg-b", "pkg-c">>
Packages == {PkgOrder[i] : i \in 1..Len(PkgOrder)}

Descriptors(pkg) ==
  CASE pkg = "pkg-a" -> <<"Foo">>
    [] pkg = "pkg-b" -> <<"Foo", "Bar">>
    [] OTHER -> << >>

PackageDir(pkg) == "node_modules/" \o pkg

LinkRecord(pluginName, packageName, targetDir) ==
  [pluginName |-> pluginName, packageName |-> packageName, targetDir |-> targetDir]

(***************************************************************************)
(* Destination entries.  kind is what lstat reports; by is who created the *)
(* entry (history, not visible to the program); target is the directory a  *)
(* link points at or a copy was made from; complete is FALSE for a copy    *)
(* that fs.cp abandoned half way.                                          *)
(***************************************************************************)
Absent == [kind |-> "none", by |-> "none", target |-> "none", complete |-> TRUE]
UserDir == [kind |-> "dir", by |-> "user", target |-> "none", complete |-> TRUE]
Symlink(targetDir) == [kind |-> "symlink", by |-> "sync", target |-> targetDir, complete |-> TRUE]
Junction(targetDir) == [kind |-> "junction", by |-> "sync", target |-> targetDir, complete |-> TRUE]
CopiedDir(targetDir, complete) == [kind |-> "dir", by |-> "sync", target |-> targetDir, complete |-> complete]

exists(e) == e.kind # "none"

isSymlink(e) == e.kind \in {"symlink", "junction"}

(***************************************************************************)
(* A JavaScript Map keyed by pluginName, as the sequence of its values in  *)
(* insertion order.                                                        *)
(***************************************************************************)
MapHas(m, k) == \E i \in 1..Len(m) : m[i].pluginName = k
MapGet(m, k) == m[CHOOSE i \in 1..Len(m) : m[i].pluginName = k]
\* A plausible slip: an existing key keeps its old record.
MapSet_KeepOld(m, k, v) == IF \E i \in 1..Len(m) : m[i].pluginName = k THEN m ELSE Append(m, v)

MapSet(m, k, v) ==
  IF MapHas(m, k)
    THEN [i \in 1..Len(m) |-> IF m[i].pluginName = k THEN v ELSE m[i]]
    ELSE Append(m, v)
MapKeys(m) == {m[i].pluginName : i \in 1..Len(m)}

RECURSIVE MapFromSeq(_, _)
MapFromSeq(recs, acc) ==
  IF recs = << >> THEN acc
  ELSE MapFromSeq(Tail(recs),
                  IF Head(recs).pluginName # "" THEN MapSet(acc, Head(recs).pluginName, Head(recs)) ELSE acc)

loadManifest(fileExists, links) == IF fileExists THEN MapFromSeq(links, << >>) ELSE << >>

\* A plausible slip: the file is written before any record is collected.
saveManifest_Nothing(records) == << >>

saveManifest(records) == records

(***************************************************************************)
(* Discovery.                                                              *)
(***************************************************************************)
RECURSIVE addFromDir(_, _, _)
addFromDir(names, dir, found) ==
  IF names = << >> THEN found
  ELSE addFromDir(Tail(names), dir,
                  IF \E i \in 1..Len(found) : found[i].pluginName = Head(names)
                    THEN found
                    ELSE Append(found, [pluginName |-> Head(names), targetDir |-> dir]))

findPluginsInPackageDir(pkg) == addFromDir(Descriptors(pkg), PackageDir(pkg), << >>)

scanPackageDir(packageName) ==
  LET plugins == findPluginsInPackageDir(packageName)
  IN  [i \in 1..Len(plugins) |-> LinkRecord(plugins[i].pluginName, packageName, plugins[i].targetDir)]

RECURSIVE ScanTop(_, _)
ScanTop(i, inst) ==
  IF i > Len(PkgOrder) THEN << >>
  ELSE (IF PkgOrder[i] \in inst THEN scanPackageDir(PkgOrder[i]) ELSE << >>) \o ScanTop(i + 1, inst)

findPluginsInNodeModules(inst) == ScanTop(1, inst)

(***************************************************************************)
(* Warnings and the log of filesystem operations of a run.                 *)
(***************************************************************************)
Warn(kind, name) == [kind |-> kind, pluginName |-> name]
Op(op, name, ok) == [op |-> op, name |-> name, ok |-> ok]

(***************************************************************************)
(* Link/copy operator.                                                     *)
(***************************************************************************)
removeLinkDir(e, fails) == [ok |-> ~fails, entry |-> IF fails THEN e ELSE Absent]

\* A plausible slip: the mode is ignored and a native link is always made.
createLinkToDirectory_IgnoreMode(e, targetDir, mode, pf, outcome, rmFails) ==
  LET cleared == IF exists(e) /\ isSymlink(e) THEN removeLinkDir(e, rmFails)
                 ELSE [ok |-> ~exists(e), entry |-> e]
  IN  IF ~cleared.ok \/ outcome # "ok" THEN [ok |-> FALSE, entry |-> cleared.entry]
      ELSE IF pf = "win32" THEN [ok |-> TRUE, entry |-> Junction(targetDir)]
      ELSE [ok |-> TRUE, entry |-> Symlink(targetDir)]

\* A plausible slip: the exit code of mklink is not looked at.
createLinkToDirectory_ExitIgnored(e, targetDir, mode, pf, outcome, rmFails) ==
  LET cleared == IF exists(e) /\ isSymlink(e) THEN removeLinkDir(e, rmFails)
                 ELSE [ok |-> ~exists(e), entry |-> e]
  IN  IF ~cleared.ok THEN [ok |-> FALSE, entry |-> cleared.entry]
      ELSE IF mode = "copy" THEN
             CASE outcome = "ok" -> [ok |-> TRUE, entry |-> CopiedDir(targetDir, TRUE)]
               [] outcome = "partial" -> [ok |-> FALSE, entry |-> CopiedDir(targetDir, FALSE)]
               [] OTHER -> [ok |-> FALSE, entry |-> cleared.entry]
      ELSE IF pf = "win32" THEN [ok |-> TRUE, entry |-> Junction(targetDir)]
      ELSE IF outcome # "ok" THEN [ok |-> FALSE, entry |-> cleared.entry]
      ELSE [ok |-> TRUE, entry |-> Symlink(targetDir)]

\* types.ts:489-533.  outcome: "ok", "fail" (nothing created) or, in copy mode,
\* "partial" (fs.cp raised after it had created part of the tree).
createLinkToDirectory(e, targetDir, mode, pf, outcome, rmFails) ==
  LET cleared == IF exists(e) /\ isSymlink(e) THEN removeLinkDir(e, rmFails)
                 ELSE [ok |-> ~exists(e), entry |-> e]
  IN  IF ~cleared.ok THEN [ok |-> FALSE, entry |-> cleared.entry]
      ELSE IF mode = "copy" THEN
             CASE outcome = "ok" -> [ok |-> TRUE, entry |-> CopiedDir(targetDir, TRUE)]
               [] outcome = "partial" -> [ok |-> FALSE, entry |-> CopiedDir(targetDir, FALSE)]
               [] OTHER -> [ok |-> FALSE, entry |-> cleared.entry]
      ELSE IF outcome # "ok" THEN [ok |-> FALSE, entry |-> cleared.entry]
      ELSE IF pf = "win32" THEN [ok |-> TRUE, entry |-> Junction(targetDir)]
      ELSE [ok |-> TRUE, entry |-> Symlink(targetDir)]

(***************************************************************************)
(* Reconciler.                                                             *)
(***************************************************************************)
\* A plausible slip: the later package overwrites the earlier one.
DesiredStep_LastWins(acc, rec) ==
  IF MapHas(acc.map, rec.pluginName)
    THEN [acc EXCEPT !.warnings = Append(@, Warn("collision", rec.pluginName)),
                     !.map = MapSet(@, rec.pluginName, rec)]
    ELSE [acc EXCEPT !.map = MapSet(@, rec.pluginName, rec)]

\* types.ts:556-562, one iteration
DesiredStep(acc, rec) ==
  IF MapHas(acc.map, rec.pluginName)
    THEN [acc EXCEPT !.warnings = Append(@, Warn("collision", rec.pluginName))]
    ELSE [acc EXCEPT !.map = MapSet(@, rec.pluginName, rec)]

\* types.ts:555-562
RECURSIVE BuildDesired(_, _)
BuildDesired(discovered, acc) ==
  IF discovered = << >> THEN acc
  ELSE BuildDesired(Tail(discovered), DesiredStep(acc, Head(discovered)))

\* A plausible slip: the removal pass clears every destination entry that is not desired.
RemoveStep_Sweeps(acc, rec, desired, mode, pf, rmFail) ==
  [acc EXCEPT !.dest = [n \in Plugins |-> IF MapHas(desired, n) THEN acc.dest[n] ELSE Absent],
              !.removed = Append(@, rec)]

\* types.ts:564-582, one iteration
RemoveStep(acc, rec, desired, mode, pf, rmFail) ==
  LET n == rec.pluginName
      e == acc.dest[n]
  IN  IF MapHas(desired, n) THEN acc
      ELSE IF exists(e) THEN
        IF ~isSymlink(e) /\ mode # "copy" /\ pf # "win32"
          THEN [acc EXCEPT !.warnings = Append(@, Warn("notLink", n)),
                           !.removed = Append(@, rec)]
          ELSE LET r == removeLinkDir(e, n \in rmFail)
               IN  IF ~r.ok
                     THEN [acc EXCEPT !.warnings = Append(@, Warn("removeFailed", n)),
                                      !.ops = Append(@, Op("remove", n, FALSE))]
                     ELSE [acc EXCEPT !.dest[n] = r.entry,
                                      !.ops = Append(@, Op("remove", n, TRUE)),
                                      !.removed = Append(@, rec)]
      ELSE [acc EXCEPT !.removed = Append(@, rec)]

RECURSIVE RemovalPass(_, _, _, _, _, _)
RemovalPass(acc, managed, desired, mode, pf, rmFail) ==
  IF managed = << >> THEN acc
  ELSE RemovalPass(RemoveStep(acc, Head(managed), desired, mode, pf, rmFail),
                   Tail(managed), desired, mode, pf, rmFail)

\* A plausible slip: every existing destination path is taken for a managed one.
alreadyManaged_Always(managed, pluginName) == TRUE

\* types.ts:587
alreadyManaged(managed, pluginName) == MapHas(managed, pluginName)

\* types.ts:585-604, one iteration; threw is set when line 591 raises
LinkStep(acc, desired, managed, mode, pf, rmFail, mk) ==
  LET n == desired.pluginName
      e == acc.dest[n]
  IN  IF acc.threw THEN acc
      ELSE IF exists(e) /\ ~alreadyManaged(managed, n)
        THEN [acc EXCEPT !.warnings = Append(@, Warn("skipped", n))]
      ELSE LET rm == IF exists(e) THEN removeLinkDir(e, n \in rmFail)
                     ELSE [ok |-> TRUE, entry |-> e]
           IN  IF ~rm.ok
                 THEN [acc EXCEPT !.threw = TRUE,
                                  !.ops = Append(@, Op("remove", n, FALSE))]
                 ELSE LET ops1 == IF exists(e) THEN Append(acc.ops, Op("remove", n, TRUE)) ELSE acc.ops
                          c == createLinkToDirectory(rm.entry, desired.targetDir, mode, pf, mk[n], n \in rmFail)
                      IN  IF c.ok
                            THEN [acc EXCEPT !.dest[n] = c.entry,
                                             !.ops = Append(ops1, Op("create", n, TRUE)),
                                             !.newManaged = MapSet(@, n, desired),
                                             !.linked = Append(@, desired)]
                            ELSE [acc EXCEPT !.dest[n] = c.entry,
                                             !.ops = Append(ops1, Op("create", n, FALSE)),
                                             !.warnings = Append(@, Warn("createFailed", n))]

RECURSIVE LinkingPass(_, _, _, _, _, _, _)
LinkingPass(acc, todo, managed, mode, pf, rmFail, mk) ==
  IF todo = << >> THEN acc
  ELSE LinkingPass(LinkStep(acc, Head(todo), managed, mode, pf, rmFail, mk),
                   Tail(todo), managed, mode, pf, rmFail, mk)

\* A plausible slip: the new manifest starts empty.
NewManagedInit_Empty(managed) == << >>

\* types.ts:584, new Map(managed)
NewManagedInit(managed) == managed

\* A plausible slip: the short-circuit is left out.
shortCircuit_Never(discovered, manifestExists) == FALSE

\* types.ts:547
shortCircuit(discovered, manifestExists) == Len(discovered) = 0 /\ ~manifestExists

\* A plausible slip: a failed mkdir is swallowed and the run goes on.
mkdirThrows_Swallowed(dirExists, mkdirFail) == FALSE

\* types.ts:552, fs.mkdir(destFull, {recursive: true}) raising
mkdirThrows(dirExists, mkdirFail) == ~dirExists /\ mkdirFail

\* A plausible slip: the manifest is saved in a finally block, also when the run throws.
persist_Always(mid, threw, newManaged) ==
  [mid EXCEPT !.outcome = IF threw THEN "threw" ELSE "returned",
              !.ok = ~threw,
              !.hasManifest = TRUE,
              !.manifest = saveManifest(newManaged),
              !.ops = Append(@, Op("save", "manifest", TRUE))]

\* types.ts:606-608; not reached when line 591 raised
persist(mid, threw, newManaged) ==
  IF threw
    THEN [mid EXCEPT !.outcome = "threw"]
    ELSE [mid EXCEPT !.ok = TRUE,
                     !.hasManifest = TRUE,
                     !.manifest = saveManifest(newManaged),
                     !.ops = Append(@, Op("save", "manifest", TRUE))]

\* types.ts:535-609.  fs is the destination before the run.
syncUePluginLinks(fs, inst, mode, pf, rmFail, mk, mkdirFail) ==
  LET discovered == findPluginsInNodeModules(inst)
      base == [outcome |-> "returned", ok |-> FALSE, shortCircuit |-> FALSE,
               linked |-> << >>, removed |-> << >>, warnings |-> << >>, ops |-> << >>,
               discovered |-> discovered, managed |-> << >>, desired |-> << >>,
               destDirExists |-> fs.destDirExists, dest |-> fs.dest,
               hasManifest |-> fs.hasManifest, manifest |-> fs.manifest]
  IN  IF shortCircuit(discovered, fs.hasManifest)
        THEN [base EXCEPT !.ok = TRUE, !.shortCircuit = TRUE]
      ELSE IF mkdirThrows(fs.destDirExists, mkdirFail)
        THEN [base EXCEPT !.outcome = "threw", !.ops = <<Op("mkdir", "dest", FALSE)>>]
      ELSE
        LET managed == loadManifest(fs.hasManifest, fs.manifest)
            d == BuildDesired(discovered, [map |-> << >>, warnings |-> << >>])
            rp == RemovalPass([dest |-> fs.dest, removed |-> << >>, warnings |-> d.warnings,
                               ops |-> <<Op("mkdir", "dest", fs.destDirExists \/ ~mkdirFail),
                                         Op("load", "manifest", TRUE)>>],
                              managed, d.map, mode, pf, rmFail)
            lp == LinkingPass([dest |-> rp.dest, newManaged |-> NewManagedInit(managed), linked |-> << >>,
                               warnings |-> rp.warnings, ops |-> rp.ops, threw |-> FALSE],
                              d.map, managed, mode, pf, rmFail, mk)
            mid == [base EXCEPT !.managed = managed, !.desired = d.map,
                                !.destDirExists = TRUE, !.dest = lp.dest,
                                !.linked = lp.linked, !.removed = rp.removed,
                                !.warnings = lp.warnings, !.ops = lp.ops]
        IN  persist(mid, lp.threw, lp.newManaged)

(***************************************************************************)
(* The state machine.                                                      *)
(***************************************************************************)
NoRun == [outcome |-> "none"]
\* no package operation yet / no renderer
NoPm == [kind |-> "none"]
NoUi == [busy |-> "none"]
\* no concrete layout, scan, copy or raw manifest file under examination
NoLayout == [rootKind |-> "none"]
NotScanned == [outcome |-> "none"]
NotCopied == [outcome |-> "none"]
NoRawFile == [kind |-> "none"]
NoLab ==
  /\ nodeModules = NoLayout
  /\ scanned = NotScanned
  /\ copied = NotCopied
  /\ manifestFile = NoRawFile

Init ==
  /\ pm = NoPm
  /\ ui = NoUi
  /\ NoLab
  /\ platform \in {"posix", "win32"}
  /\ installed = {}
  /\ destDirExists \in BOOLEAN
  /\ dest = [n \in Plugins |-> Absent]
  /\ hasManifest = FALSE
  /\ manifest = << >>
  /\ run = NoRun
  /\ nRuns = 0
  /\ nEnv = 0

EnvStep ==
  /\ nEnv < MaxEnvSteps
  /\ nEnv' = nEnv + 1
  /\ run' = NoRun
  /\ UNCHANGED <<platform, nRuns, pm, ui>>
  /\ UNCHANGED labVars

\* npm install <pkg>
Install(pkg) ==
  /\ pkg \notin installed
  /\ installed' = installed \cup {pkg}
  /\ EnvStep
  /\ UNCHANGED <<destDirExists, dest, hasManifest, manifest>>

\* npm uninstall <pkg>
Uninstall(pkg) ==
  /\ pkg \in installed
  /\ installed' = installed \ {pkg}
  /\ EnvStep
  /\ UNCHANGED <<destDirExists, dest, hasManifest, manifest>>

\* the user creates a directory of their own at a destination path that is absent
UserCreate(n) ==
  /\ ~exists(dest[n])
  /\ dest' = [dest EXCEPT ![n] = UserDir]
  /\ destDirExists' = TRUE
  /\ EnvStep
  /\ UNCHANGED <<installed, hasManifest, manifest>>

\* The filesystem faults of one run, one per plugin path: its removal raises, its
\* link/copy creation raises, or (copy mode) fs.cp raises half way.  A run never
\* both removes and creates one path unless the removal succeeded.
Faults(mode) == IF mode = "copy" THEN {"none", "remove", "create", "partial"} ELSE {"none", "remove", "create"}
RmFail(f) == {n \in Plugins : f[n] = "remove"}
Mk(f) == [n \in Plugins |-> CASE f[n] = "create" -> "fail" [] f[n] = "partial" -> "partial" [] OTHER -> "ok"]

\* A plausible slip: the removal goes through a link and empties the directory it
\* points at.
rmReach_FollowsLink(e) == IF isSymlink(e) THEN {e.target} ELSE {}

\* types.ts:484-487, the directories outside the destination whose contents
\* fs.rm(linkPath, {recursive, force}) deletes when it removes entry e: none, a link
\* is unlinked and not followed, and a copy made with dereference holds no link
rmReach(e) == {}

\* the directories run r reached through its removals (types.ts:573 and 591)
Reached(r, pre) ==
  UNION {rmReach(pre[n]) : n \in {m \in Plugins : \E i \in 1..Len(r.ops) : r.ops[i] = Op("remove", m, TRUE)}}

\* the packages of inst whose directory was not reached
Surviving(inst, reached) == {pkg \in inst : PackageDir(pkg) \notin reached}

\* the paths whose creation was attempted in run r and met a subprocess or copy that
\* did not complete (types.ts:524-528, child.on('close') with code # 0, child.on('error'))
MkFailed(r, mk) ==
  {n \in Plugins : mk[n] # "ok" /\ \E i \in 1..Len(r.ops) : r.ops[i].op = "create" /\ r.ops[i].name = n}

Sync(mode, rmFail, mk, mkdirFail) ==
  /\ nRuns < MaxSyncRuns
  /\ \E r \in {syncUePluginLinks([destDirExists |-> destDirExists, dest |-> dest,
                                    hasManifest |-> hasManifest, manifest |-> manifest],
                                   installed, mode, platform, rmFail, mk, mkdirFail)} :
         /\ destDirExists' = r.destDirExists
         /\ dest' = r.dest
         /\ hasManifest' = r.hasManifest
         /\ manifest' = r.manifest
         /\ run' = [outcome |-> r.outcome, ok |-> r.ok, shortCircuit |-> r.shortCircuit,
                    mode |-> mode,
                    linked |-> r.linked, removed |-> r.removed, warnings |-> r.warnings,
                    ops |-> r.ops, discovered |-> r.discovered, managed |-> r.managed,
                    desired |-> r.desired,
                    preDestDirExists |-> destDirExists, preDest |-> dest,
                    preHasManifest |-> hasManifest, preManifest |-> manifest,
                    afterSync |-> (run.outcome = "returned" /\ run.mode = mode),
                    mkFailed |-> MkFailed(r, mk),
                    preInstalled |-> installed, reached |-> Reached(r, dest)]
         /\ installed' = Surviving(installed, Reached(r, dest))
  /\ nRuns' = nRuns + 1
  /\ UNCHANGED <<platform, nEnv, pm, ui>>
  /\ UNCHANGED labVars

\* index.ts:302-311, the links:sync handler around syncLinks
linksSyncHandler(r) ==
  IF r.outcome = "threw"
    THEN [ok |-> FALSE, error |-> "Error.message"]
    ELSE [ok |-> TRUE,
          data |-> [ok |-> r.ok, linked |-> r.linked, removed |-> r.removed, warnings |-> r.warnings]]

Next ==
  \/ \E pkg \in Packages : Install(pkg)
  \/ \E pkg \in Packages : Uninstall(pkg)
  \/ \E n \in Plugins : UserCreate(n)
  \/ \E mode \in {"auto", "copy"} :
       \E f \in [Plugins -> Faults(mode)] :
           \E mkdirFail \in (IF destDirExists THEN {FALSE} ELSE BOOLEAN) :
             Sync(mode, RmFail(f), Mk(f), mkdirFail)

Spec == Init /\ [][Next]_vars

(***************************************************************************)
(* The project manager: package operations that run npm and then, when     *)
(* auto-link is on, a link sync.                                           *)
(***************************************************************************)
DefaultPluginsDir == "projectDir/Plugins"
OverrideDir == "override/Plugins"
LinkModes == {"auto", "copy"}
AppSettings ==
  [autoLinkUnrealPlugins : BOOLEAN, pluginsRootDirOverride : {"null", OverrideDir}, linkMode : LinkModes]
SettingsPatch == [autoLinkUnrealPlugins : BOOLEAN, linkMode : LinkModes]

\* projectManager.ts:828, settings.pluginsRootDirOverride ?? path.join(projectDir, 'Plugins')
destinationDirOf(settings) ==
  IF settings.pluginsRootDirOverride = "null" THEN DefaultPluginsDir ELSE settings.pluginsRootDirOverride

\* A plausible slip: the sync runs whatever the setting says.
autoLinkEnabled_Always(settings) == TRUE

\* projectManager.ts:827, if (settings.autoLinkUnrealPlugins)
autoLinkEnabled(settings) == settings.autoLinkUnrealPlugins

\* index.ts:182-199, settings:set; the patch carries no override
mergeSettings(settings, patch) ==
  [settings EXCEPT !.autoLinkUnrealPlugins = patch.autoLinkUnrealPlugins,
                   !.linkMode = patch.linkMode]

\* what the npm command of an operation leaves under node_modules when it exits 0
npmEffect(kind, pkg, inst) ==
  IF kind = "uninstall" THEN inst \ {pkg} ELSE inst \cup {pkg}

FsNow == [destDirExists |-> destDirExists, dest |-> dest,
          hasManifest |-> hasManifest, manifest |-> manifest]

\* the destination and the run record after a sync run r of the given mode
Commit(r, mode, mk, inst) ==
  /\ destDirExists' = r.destDirExists
  /\ dest' = r.dest
  /\ hasManifest' = r.hasManifest
  /\ manifest' = r.manifest
  /\ run' = [outcome |-> r.outcome, ok |-> r.ok, shortCircuit |-> r.shortCircuit,
             mode |-> mode,
             linked |-> r.linked, removed |-> r.removed, warnings |-> r.warnings,
             ops |-> r.ops, discovered |-> r.discovered, managed |-> r.managed,
             desired |-> r.desired,
             preDestDirExists |-> destDirExists, preDest |-> dest,
             preHasManifest |-> hasManifest, preManifest |-> manifest,
             afterSync |-> (run.outcome = "returned" /\ run.mode = mode),
             mkFailed |-> MkFailed(r, mk),
             preInstalled |-> inst, reached |-> Reached(r, dest)]
  /\ installed' = Surviving(inst, Reached(r, dest))

PmDone(kind, pkg, exitCode, threw, synced) ==
  [kind |-> kind, pkg |-> pkg, exitCode |-> exitCode, threw |-> threw, synced |-> synced,
   destinationDir |-> IF synced THEN destinationDirOf(pm.settings) ELSE "none",
   pre |-> FsNow, settings |-> pm.settings, n |-> pm.n + 1]

\* the filesystem faults a sync run inside an operation can meet
PmFaults == [Plugins -> Faults(pm.settings.linkMode)]
MkdirFaults == IF destDirExists THEN {FALSE} ELSE BOOLEAN

\* projectManager.ts:810-831, 833-852, 854-873: runNpm, throw on a non-zero exit,
\* then syncUePluginLinks when auto-link is on
pmOperation(kind, pkg, exitCode) ==
  /\ pm.n < MaxPmOps
  /\ UNCHANGED <<platform, nRuns, nEnv, ui>>
  /\ UNCHANGED labVars
  /\ IF exitCode # 0
       THEN /\ pm' = PmDone(kind, pkg, exitCode, TRUE, FALSE)
            /\ run' = NoRun
            /\ UNCHANGED <<installed, destDirExists, dest, hasManifest, manifest>>
       ELSE /\ IF autoLinkEnabled(pm.settings)
                 THEN \E f \in PmFaults, mkdirFail \in MkdirFaults :
                        \E r \in {syncUePluginLinks(FsNow, npmEffect(kind, pkg, installed),
                                                    pm.settings.linkMode, platform,
                                                    RmFail(f), Mk(f), mkdirFail)} :
                          /\ Commit(r, pm.settings.linkMode, Mk(f), npmEffect(kind, pkg, installed))
                          /\ pm' = PmDone(kind, pkg, exitCode, r.outcome = "threw", TRUE)
                 ELSE /\ pm' = PmDone(kind, pkg, exitCode, FALSE, FALSE)
                      /\ installed' = npmEffect(kind, pkg, installed)
                      /\ run' = NoRun
                      /\ UNCHANGED <<destDirExists, dest, hasManifest, manifest>>

installPackage(pkg, exitCode) == pmOperation("install", pkg, exitCode)
uninstallPackage(pkg, exitCode) == pmOperation("uninstall", pkg, exitCode)
updatePackage(pkg, exitCode) == pmOperation("update", pkg, exitCode)

\* index.ts:182-199
setSettings(patch) ==
  /\ pm.kind # "settings"
  /\ mergeSettings(pm.settings, patch) # pm.settings
  /\ pm' = [kind |-> "settings", settings |-> mergeSettings(pm.settings, patch), n |-> pm.n]
  /\ run' = NoRun
  /\ UNCHANGED <<platform, installed, destDirExists, dest, hasManifest, manifest, nRuns, nEnv, ui>>
  /\ UNCHANGED labVars

InitPM ==
  /\ pm \in [kind : {"start"}, settings : AppSettings, n : {0}]
  /\ ui = NoUi
  /\ NoLab
  /\ platform \in {"posix", "win32"}
  /\ installed = {}
  /\ destDirExists \in BOOLEAN
  /\ dest = [n \in Plugins |-> Absent]
  /\ hasManifest = FALSE
  /\ manifest = << >>
  /\ run = NoRun
  /\ nRuns = 0
  /\ nEnv = 0

ExitCodes == {0, 1}

NextPM ==
  \/ \E pkg \in Packages, c \in ExitCodes : installPackage(pkg, c)
  \/ \E pkg \in Packages, c \in ExitCodes : uninstallPackage(pkg, c)
  \/ \E pkg \in Packages, c \in ExitCodes : updatePackage(pkg, c)
  \/ \E patch \in SettingsPatch : setSettings(patch)

SpecPM == InitPM /\ [][NextPM]_vars

(***************************************************************************)
(* The renderer and the IPC calls it has in flight.  A call is in flight   *)
(* from the invoke to the handler's reply; a package call is first in its  *)
(* npm phase, then, when auto-link is on, in its sync phase.  The effect   *)
(* of a sync run on the destination is taken when the run completes.       *)
(***************************************************************************)
\* EmptyState.tsx:459, [projectDir, override ?? '', linkMode].join('|') for the one project
autoSyncKey(settings) ==
  (IF settings.pluginsRootDirOverride = "null" THEN "" ELSE settings.pluginsRootDirOverride)
    \o "|" \o settings.linkMode

\* EmptyState.tsx:1026
canAct == ui.busy = "null"

\* EmptyState.tsx:374-383 around an IPC invoke: setBusy(key), then the call is in flight
act(u, key, kind, pkg, phase) ==
  [u EXCEPT !.busy = key,
            !.calls = @ \cup {[id |-> u.n + 1, kind |-> kind, pkg |-> pkg, phase |-> phase,
                               settings |-> u.settings]},
            !.n = @ + 1]

\* EmptyState.tsx:424-439
syncLinksNow(u) == act(u, "links:sync", "sync", "none", "sync")

\* EmptyState.tsx:456-475, the two effects on the settings
autoSyncEffect(u) ==
  IF ~u.settings.autoLinkUnrealPlugins THEN [u EXCEPT !.autoSyncedKey = ""]
  ELSE IF u.autoSyncedKey = autoSyncKey(u.settings) THEN u
  ELSE syncLinksNow([u EXCEPT !.autoSyncedKey = autoSyncKey(u.settings)])

\* EmptyState.tsx:374-383, finally setBusy(null) once the reply has come
replied(u, c) == [u EXCEPT !.busy = "null", !.calls = @ \ {c}]

UiFrame == UNCHANGED <<platform, nRuns, nEnv, pm>> /\ UNCHANGED labVars
FsFrame == UNCHANGED <<destDirExists, dest, hasManifest, manifest, run>>

\* EmptyState.tsx:385-397
installSelected(pkg) ==
  /\ canAct /\ ui.n < MaxUiCalls
  /\ ui' = act(ui, "install:" \o pkg, "install", pkg, "npm")
  /\ UNCHANGED installed /\ FsFrame /\ UiFrame

\* EmptyState.tsx:399-409
uninstallSelected(pkg) ==
  /\ canAct /\ ui.n < MaxUiCalls
  /\ ui' = act(ui, "uninstall:" \o pkg, "uninstall", pkg, "npm")
  /\ UNCHANGED installed /\ FsFrame /\ UiFrame

\* EmptyState.tsx:411-421
updateSelected(pkg) ==
  /\ canAct /\ ui.n < MaxUiCalls
  /\ ui' = act(ui, "update:" \o pkg, "update", pkg, "npm")
  /\ UNCHANGED installed /\ FsFrame /\ UiFrame

\* the Sync Links button, disabled unless canAct
clickSyncLinks ==
  /\ canAct /\ ui.n < MaxUiCalls
  /\ ui' = syncLinksNow(ui)
  /\ UNCHANGED installed /\ FsFrame /\ UiFrame

\* EmptyState.tsx:825-833 with index.ts:182-199; the Settings button is not
\* disabled while busy (EmptyState.tsx:545); the effects run on the new settings
onSaveSettings(patch) ==
  /\ ui.n < MaxUiCalls
  /\ mergeSettings(ui.settings, patch) # ui.settings
  /\ ui' = autoSyncEffect([ui EXCEPT !.settings = mergeSettings(ui.settings, patch)])
  /\ UNCHANGED installed /\ FsFrame /\ UiFrame

\* projectManager.ts:818-828 inside a package handler of index.ts:247-300:
\* the npm command of call c exits
npmExit(c, exitCode) ==
  /\ c \in ui.calls /\ c.phase = "npm"
  /\ IF exitCode # 0
       THEN /\ ui' = replied(ui, c)
            /\ UNCHANGED installed
       ELSE /\ installed' = npmEffect(c.kind, c.pkg, installed)
            /\ ui' = IF autoLinkEnabled(c.settings)
                       THEN [ui EXCEPT !.calls = (@ \ {c}) \cup {[c EXCEPT !.phase = "sync"]}]
                       ELSE replied(ui, c)
  /\ FsFrame /\ UiFrame

\* the sync run of call c completes and the handler replies
syncDone(c, f, mkdirFail) ==
  /\ c \in ui.calls /\ c.phase = "sync"
  /\ \E r \in {syncUePluginLinks(FsNow, installed, c.settings.linkMode, platform,
                                   RmFail(f), Mk(f), mkdirFail)} :
       Commit(r, c.settings.linkMode, Mk(f), installed)
  /\ ui' = replied(ui, c)
  /\ UiFrame

InitUI ==
  /\ \E st \in AppSettings :
       ui = autoSyncEffect([busy |-> "null", settings |-> st, autoSyncedKey |-> "",
                            calls |-> {}, n |-> 0])
  /\ pm = NoPm
  /\ NoLab
  /\ platform \in {"posix", "win32"}
  /\ installed = {}
  /\ destDirExists \in BOOLEAN
  /\ dest = [n \in Plugins |-> Absent]
  /\ hasManifest = FALSE
  /\ manifest = << >>
  /\ run = NoRun
  /\ nRuns = 0
  /\ nEnv = 0

NextUI ==
  \/ \E pkg \in Packages : installSelected(pkg)
  \/ \E pkg \in Packages : uninstallSelected(pkg)
  \/ \E pkg \in Packages : updateSelected(pkg)
  \/ clickSyncLinks
  \/ \E patch \in SettingsPatch : onSaveSettings(patch)
  \/ \E c \in ui.calls, code \in ExitCodes : npmExit(c, code)
  \/ \E c \in ui.calls :
       \E f \in [Plugins -> Faults(c.settings.linkMode)], mkdirFail \in MkdirFaults :
         syncDone(c, f, mkdirFail)

SpecUI == InitUI /\ [][NextUI]_vars

(***************************************************************************)
(* Discovery on a concrete node_modules layout.  A name is a sequence of   *)
(* tokens: a leading '.' or '@' and a trailing extension are tokens of     *)
(* their own, so that the tests the code makes on names can be made here.  *)
(* A path is the sequence of names below node_modules.  A layout is the    *)
(* listing of every directory, in readdir order, and the directories whose *)
(* readdir raises.                                                         *)
(***************************************************************************)
RECURSIVE JoinName(_)
JoinName(name) == IF name = << >> THEN "" ELSE Head(name) \o JoinName(Tail(name))

RECURSIVE PathStr(_)
PathStr(p) ==
  IF p = << >> THEN "node_modules"
  ELSE PathStr(SubSeq(p, 1, Len(p) - 1)) \o "/" \o JoinName(p[Len(p)])

\* A plausible slip: the leading character is never looked at.
startsWith_Never(name, c) == FALSE

\* String.prototype.startsWith for a one-character prefix
startsWith(name, c) == name # << >> /\ Head(name) = c

UPLUGIN_EXT == ".uplugin"
toLowerCase(tok) == IF tok \in {".UPLUGIN", ".Uplugin"} THEN ".uplugin" ELSE tok

\* types.ts:313-318; "" stands for both null and the empty name, which the callers
\* treat alike (!pluginName)
pluginNameFromUpluginFilename(filename) ==
  IF filename = << >> \/ toLowerCase(filename[Len(filename)]) # UPLUGIN_EXT
    THEN ""
    ELSE JoinName(SubSeq(filename, 1, Len(filename) - 1))

Dirent(dir, name, type) == [dir |-> dir, name |-> name, type |-> type]

\* fs.stat(p).isDirectory(), following links (types.ts:367-375)
isDirectory(fs, p) ==
  \/ p = << >> /\ fs.rootKind # "absent"
  \/ \E i \in 1..Len(fs.tree) :
       /\ Append(fs.tree[i].dir, fs.tree[i].name) = p
       /\ fs.tree[i].type \in {"dir", "symlink"}

IsAt(e, p) == e.dir = p

\* fs.readdir(p, {withFileTypes: true}): raises on an unreadable or missing directory
readdir(fs, p) ==
  IF p \in fs.unreadable \/ ~isDirectory(fs, p) \/ (p = << >> /\ fs.rootKind # "dir")
    THEN [ok |-> FALSE, entries |-> << >>]
    ELSE [ok |-> TRUE, entries |-> SelectSeq(fs.tree, LAMBDA e : IsAt(e, p))]

\* A plausible slip: the byName set is never consulted.
seen_Never(byName, pluginName) == FALSE

\* types.ts:390, byName.has(pluginName)
seen(byName, pluginName) == pluginName \in byName

\* types.ts:387-394, the loop of addFromDir over the entries of dir
RECURSIVE AddEntries(_, _, _)
AddEntries(entries, dir, acc) ==
  IF entries = << >> THEN acc
  ELSE AddEntries(Tail(entries), dir,
         IF Head(entries).type # "file" THEN acc
         ELSE IF pluginNameFromUpluginFilename(Head(entries).name) = "" THEN acc
         ELSE IF seen(acc.byName, pluginNameFromUpluginFilename(Head(entries).name)) THEN acc
         ELSE [acc EXCEPT
                 !.byName = @ \cup {pluginNameFromUpluginFilename(Head(entries).name)},
                 !.found = Append(@, [pluginName |-> pluginNameFromUpluginFilename(Head(entries).name),
                                      targetDir |-> dir])])

\* types.ts:381-395 on a concrete directory
addFromDirFs(fs, dir, acc) ==
  IF ~readdir(fs, dir).ok THEN acc ELSE AddEntries(readdir(fs, dir).entries, dir, acc)

\* types.ts:410-414, the sub-directories of Plugins
RECURSIVE AddSubdirs(_, _, _, _)
AddSubdirs(fs, entries, pluginsDir, acc) ==
  IF entries = << >> THEN acc
  ELSE AddSubdirs(fs, Tail(entries), pluginsDir,
         IF Head(entries).type # "dir" THEN acc
         ELSE IF startsWith(Head(entries).name, ".") THEN acc
         ELSE addFromDirFs(fs, Append(pluginsDir, Head(entries).name), acc))

\* types.ts:397-415, the package root, then Plugins and its sub-directories
RootAndPlugins(fs, packageDir) ==
  IF isDirectory(fs, Append(packageDir, <<"Plugins">>))
    THEN AddSubdirs(fs, readdir(fs, Append(packageDir, <<"Plugins">>)).entries,
                    Append(packageDir, <<"Plugins">>),
                    addFromDirFs(fs, Append(packageDir, <<"Plugins">>),
                                 addFromDirFs(fs, packageDir, [found |-> << >>, byName |-> {}])))
    ELSE addFromDirFs(fs, packageDir, [found |-> << >>, byName |-> {}])

maxDepth == 6

\* A plausible slip: the depth test is left out.
tooDeep_Never(depth) == FALSE

\* types.ts:425
tooDeep(depth) == depth > maxDepth

\* types.ts:432-445, the entries of one directory popped from the stack
RECURSIVE FallbackEntries(_, _, _)
FallbackEntries(entries, next, st) ==
  IF entries = << >> THEN st
  ELSE FallbackEntries(Tail(entries), next,
         IF Head(entries).type = "dir" THEN
           IF Head(entries).name = <<"node_modules">> \/ Head(entries).name = <<".", "git">> THEN st
           ELSE IF startsWith(Head(entries).name, ".") THEN st
           ELSE [st EXCEPT !.stack = Append(@, [dir |-> Append(next.dir, Head(entries).name),
                                                depth |-> next.depth + 1])]
         ELSE IF Head(entries).type # "file" THEN st
         ELSE IF pluginNameFromUpluginFilename(Head(entries).name) = "" THEN st
         ELSE IF seen(st.byName, pluginNameFromUpluginFilename(Head(entries).name)) THEN st
         ELSE [st EXCEPT
                 !.byName = @ \cup {pluginNameFromUpluginFilename(Head(entries).name)},
                 !.found = Append(@, [pluginName |-> pluginNameFromUpluginFilename(Head(entries).name),
                                      targetDir |-> next.dir])])

Pop(st) == [st EXCEPT !.stack = SubSeq(@, 1, Len(@) - 1), !.iters = @ + 1]
Top(st) == st.stack[Len(st.stack)]

\* types.ts:422-446, the while loop; iters counts its iterations
RECURSIVE FallbackLoop(_, _)
FallbackLoop(fs, st) ==
  IF st.stack = << >> THEN st
  ELSE IF tooDeep(Top(st).depth) THEN FallbackLoop(fs, Pop(st))
  ELSE IF ~readdir(fs, Top(st).dir).ok THEN FallbackLoop(fs, Pop(st))
  ELSE FallbackLoop(fs, FallbackEntries(readdir(fs, Top(st).dir).entries, Top(st), Pop(st)))

\* types.ts:377-448 on a concrete package directory
findPluginsInPackageDirFs(fs, packageDir) ==
  LET first == RootAndPlugins(fs, packageDir)
  IN  IF first.found # << >>
        THEN [found |-> first.found, iters |-> 0]
        ELSE LET st == FallbackLoop(fs, [stack |-> <<[dir |-> packageDir, depth |-> 0]>>,
                                         found |-> first.found, byName |-> first.byName,
                                         iters |-> 0])
             IN  [found |-> st.found, iters |-> st.iters]

\* types.ts:453, the records pushed to out for one package
PushRecords(r, packageName, out) ==
  [out EXCEPT !.records = @ \o [i \in 1..Len(r.found) |->
                                  LinkRecord(r.found[i].pluginName, packageName,
                                             PathStr(r.found[i].targetDir))],
              !.dirs = @ \o [i \in 1..Len(r.found) |-> r.found[i].targetDir],
              !.iters = @ + r.iters]

\* types.ts:450-457
scanPackageDirFs(fs, packageName, packageDir, out) ==
  PushRecords(findPluginsInPackageDirFs(fs, packageDir), packageName, out)

\* A plausible slip: an unreadable scope directory is not caught.
onScopeReaddirFail_Throws(out) == [out EXCEPT !.outcome = "threw"]

\* types.ts:466-468, catch { continue }
onScopeReaddirFail(out) == out

\* types.ts:470-475, the children of a scope directory
RECURSIVE ScanScope(_, _, _, _)
ScanScope(fs, scoped, ent, out) ==
  IF scoped = << >> THEN out
  ELSE ScanScope(fs, Tail(scoped), ent,
         IF Head(scoped).type \notin {"dir", "symlink"} THEN out
         ELSE IF startsWith(Head(scoped).name, ".") THEN out
         ELSE scanPackageDirFs(fs, JoinName(ent.name) \o "/" \o JoinName(Head(scoped).name),
                               <<ent.name, Head(scoped).name>>, out))

\* types.ts:459-479, the loop over the entries of node_modules
RECURSIVE ScanTopFs(_, _, _)
ScanTopFs(fs, top, out) ==
  IF top = << >> \/ out.outcome = "threw" THEN out
  ELSE ScanTopFs(fs, Tail(top),
         IF Head(top).type \notin {"dir", "symlink"} THEN out
         ELSE IF startsWith(Head(top).name, ".") THEN out
         ELSE IF startsWith(Head(top).name, "@") THEN
           IF ~readdir(fs, <<Head(top).name>>).ok THEN onScopeReaddirFail(out)
           ELSE ScanScope(fs, readdir(fs, <<Head(top).name>>).entries, Head(top), out)
         ELSE scanPackageDirFs(fs, JoinName(Head(top).name), <<Head(top).name>>, out))

NoRecords == [outcome |-> "returned", records |-> << >>, dirs |-> << >>, iters |-> 0]

\* types.ts:360-482 on a concrete layout; the readdir of line 365 is not caught
findPluginsInNodeModulesFs(fs) ==
  IF fs.rootKind = "absent" THEN NoRecords
  ELSE IF ~readdir(fs, << >>).ok THEN [NoRecords EXCEPT !.outcome = "threw"]
  ELSE ScanTopFs(fs, readdir(fs, << >>).entries, NoRecords)

(***************************************************************************)
(* Copy mode on a concrete layout.                                         *)
(***************************************************************************)
HasComponent(p, names) == \E i \in 1..Len(p) : p[i] \in names

\* A plausible slip (the earlier filter, types.ts:204): the source path is tested
\* for /node_modules/ and /.git/, and every package lies below node_modules.
shouldCopy_BySource(srcPath, rel) ==
  ~\E i \in 1..(Len(srcPath) - 1) : srcPath[i] \in {<<"node_modules">>, <<".", "git">>}

\* types.ts:502-507; rel is path.relative(linkPath, destPath), split at the separator
shouldCopy(srcPath, rel) ==
  rel = << >> \/ ~HasComponent(rel, {<<"node_modules">>, <<".", "git">>})

\* fs.cp(targetDir, linkPath, {recursive, force, dereference, filter}), types.ts:508-513:
\* the filter is asked for every entry, a directory that is refused is not entered,
\* an unreadable directory makes the copy raise
RECURSIVE CpEntries(_, _, _, _, _)
RECURSIVE CpDir(_, _, _, _)
CpDir(fs, src, rel, acc) ==
  IF ~acc.ok THEN acc
  ELSE IF ~shouldCopy(<<<<"node_modules">>>> \o src \o rel, rel) THEN acc
  ELSE IF ~readdir(fs, src \o rel).ok THEN [acc EXCEPT !.ok = FALSE]
  ELSE CpEntries(fs, readdir(fs, src \o rel).entries, src, rel,
                 [acc EXCEPT !.paths = IF rel = << >> THEN @ ELSE @ \cup {rel}])

CpEntries(fs, entries, src, rel, acc) ==
  IF entries = << >> THEN acc
  ELSE CpEntries(fs, Tail(entries), src, rel,
         IF ~acc.ok THEN acc
         ELSE IF Head(entries).type = "file" THEN
           IF shouldCopy(<<<<"node_modules">>>> \o src \o Append(rel, Head(entries).name),
                         Append(rel, Head(entries).name))
             THEN [acc EXCEPT !.paths = @ \cup {Append(rel, Head(entries).name)}]
             ELSE acc
         ELSE CpDir(fs, src, Append(rel, Head(entries).name), acc))

fsCp(fs, src) == CpDir(fs, src, << >>, [ok |-> TRUE, paths |-> {}])

(***************************************************************************)
(* The layouts examined.                                                   *)
(***************************************************************************)
MaxDescriptors == 2

dHidden == <<".", "hidden">>
dScope == <<"@", "scope">>
dCache == <<".", "cache">>
dGit == <<".", "git">>
D(s) == <<s>>

\* the directories, links and plain files of every layout, in readdir order
Skeleton ==
  << Dirent(<< >>, dHidden, "dir"),
     Dirent(<< >>, dScope, "dir"),
     Dirent(<< >>, D("README"), "file"),
     Dirent(<< >>, D("linked"), "symlink"),
     Dirent(<< >>, D("pkg-a"), "dir"),
     Dirent(<<dScope>>, dCache, "dir"),
     Dirent(<<dScope>>, D("pkg-s"), "dir"),
     Dirent(<<dScope, D("pkg-s")>>, D("Source"), "dir"),
     Dirent(<<D("pkg-a")>>, dGit, "dir"),
     Dirent(<<D("pkg-a")>>, D("Plugins"), "dir"),
     Dirent(<<D("pkg-a")>>, D("Source"), "dir"),
     Dirent(<<D("pkg-a")>>, D("a"), "dir"),
     Dirent(<<D("pkg-a")>>, D("shared"), "symlink"),
     Dirent(<<D("pkg-a")>>, D("node_modules"), "dir"),
     Dirent(<<D("pkg-a"), D("Plugins")>>, dHidden, "dir"),
     Dirent(<<D("pkg-a"), D("Plugins")>>, D("Sub"), "dir"),
     Dirent(<<D("pkg-a"), D("node_modules")>>, D("dep"), "dir"),
     Dirent(<<D("pkg-a"), D("a")>>, D("b"), "dir"),
     Dirent(<<D("pkg-a"), D("a"), D("b")>>, D("c"), "dir"),
     Dirent(<<D("pkg-a"), D("a"), D("b"), D("c")>>, D("d"), "dir"),
     Dirent(<<D("pkg-a"), D("a"), D("b"), D("c"), D("d")>>, D("e"), "dir"),
     Dirent(<<D("pkg-a"), D("a"), D("b"), D("c"), D("d"), D("e")>>, D("f"), "dir"),
     Dirent(<<D("pkg-a"), D("a"), D("b"), D("c"), D("d"), D("e"), D("f")>>, D("g"), "dir") >>

Deep6 == <<D("pkg-a"), D("a"), D("b"), D("c"), D("d"), D("e"), D("f")>>
Deep7 == Append(Deep6, D("g"))

\* the directories a descriptor file may lie in
Places ==
  << <<dHidden>>, <<dScope>>, <<dScope, dCache>>, <<dScope, D("pkg-s")>>,
     <<dScope, D("pkg-s"), D("Source")>>, <<D("linked")>>,
     <<D("pkg-a")>>, <<D("pkg-a"), dGit>>, <<D("pkg-a"), D("Plugins")>>,
     <<D("pkg-a"), D("Plugins"), dHidden>>, <<D("pkg-a"), D("Plugins"), D("Sub")>>,
     <<D("pkg-a"), D("Source")>>, <<D("pkg-a"), D("node_modules"), D("dep")>>,
     Deep6, Deep7 >>

DescriptorNames == << <<"Foo", ".uplugin">>, <<"Bar", ".UPLUGIN">> >>

\* every descriptor file that may be present, in readdir order
Descriptor(k) ==
  Dirent(Places[((k - 1) \div Len(DescriptorNames)) + 1],
         DescriptorNames[((k - 1) % Len(DescriptorNames)) + 1], "file")
DescriptorIds == 1..(Len(Places) * Len(DescriptorNames))

RECURSIVE SubsetsUpTo(_, _)
SubsetsUpTo(S, k) ==
  IF k = 0 THEN {{}}
  ELSE SubsetsUpTo(S, k - 1) \cup {T \cup {x} : T \in SubsetsUpTo(S, k - 1), x \in S}

RECURSIVE FilesOf(_, _)
FilesOf(ids, k) ==
  IF k > Len(Places) * Len(DescriptorNames) THEN << >>
  ELSE (IF k \in ids THEN <<Descriptor(k)>> ELSE << >>) \o FilesOf(ids, k + 1)

\* the directories whose readdir may raise, at most one per layout
UnreadableDirs ==
  { <<dScope>>, <<dScope, D("pkg-s")>>, <<D("pkg-a")>>, <<D("pkg-a"), D("Plugins")>>,
    <<D("pkg-a"), D("Plugins"), D("Sub")>>, <<D("pkg-a"), D("a")>> }

Layouts ==
  { [rootKind |-> "dir", tree |-> Skeleton \o FilesOf(ids, 1), unreadable |-> u] :
      ids \in SubsetsUpTo(DescriptorIds, MaxDescriptors),
      u \in {{}} \cup {{d} : d \in UnreadableDirs} }
  \cup { [rootKind |-> k, tree |-> << >>, unreadable |-> {}] : k \in {"absent", "unreadable"} }

InitScan ==
  /\ nodeModules \in Layouts
  /\ scanned = NotScanned
  /\ copied = NotCopied
  /\ manifestFile = NoRawFile
  /\ pm = NoPm
  /\ ui = NoUi
  /\ platform = "posix"
  /\ installed = {}
  /\ destDirExists = FALSE
  /\ dest = [n \in Plugins |-> Absent]
  /\ hasManifest = FALSE
  /\ manifest = << >>
  /\ run = NoRun
  /\ nRuns = 0
  /\ nEnv = 0

ScanFrame ==
  UNCHANGED <<platform, installed, destDirExists, dest, hasManifest, manifest, run, nRuns, nEnv,
              pm, ui, nodeModules, manifestFile>>

\* types.ts:544 and 555-562: discovery, then the Desired Set and its collision warnings
Scan ==
  /\ scanned = NotScanned
  /\ \E r \in {findPluginsInNodeModulesFs(nodeModules)} :
       scanned' = [outcome |-> r.outcome, records |-> r.records, dirs |-> r.dirs,
                   iters |-> r.iters,
                   warnings |-> BuildDesired(r.records, [map |-> << >>, warnings |-> << >>]).warnings]
  /\ UNCHANGED copied
  /\ ScanFrame

\* types.ts:499-515: the copy of the i-th discovered plugin directory
CopyPlugin(i) ==
  /\ scanned.outcome = "returned"
  /\ copied = NotCopied
  /\ i \in 1..Len(scanned.dirs)
  /\ \E c \in {fsCp(nodeModules, scanned.dirs[i])} :
       copied' = [outcome |-> IF c.ok THEN "copied" ELSE "threw", src |-> scanned.dirs[i],
                  paths |-> c.paths]
  /\ UNCHANGED scanned
  /\ ScanFrame

NextScan ==
  \/ Scan
  \/ \E i \in 1..MaxDescriptors : CopyPlugin(i)

SpecScan == InitScan /\ [][NextScan]_vars

(***************************************************************************)
(* Vocabulary of the properties.                                           *)
(***************************************************************************)
Ran == run.outcome # "none"
Returned == run.outcome = "returned"
\* the run got past mkdir: the manifest was loaded and the Desired Set built
Reconciled == Ran /\ run.ops # << >> /\ run.ops[1] = Op("mkdir", "dest", TRUE)
\* no filesystem operation of the run failed
FailureFree == Ran /\ \A i \in 1..Len(run.ops) : run.ops[i].ok
InOps(op, n, ok) == \E i \in 1..Len(run.ops) : run.ops[i] = Op(op, n, ok)
InSeq(seq, rec) == \E i \in 1..Len(seq) : seq[i] = rec
NamedIn(seq, n) == \E i \in 1..Len(seq) : seq[i].pluginName = n
\* a warning whose text holds the path <destinationDir>/<n>
WarnsPath(n) == \E i \in 1..Len(run.warnings) :
                  run.warnings[i].pluginName = n /\ run.warnings[i].kind # "collision"
\* <destinationDir>/<n> before the run: exists, no link, not in the loaded manifest
ForeignBefore(n) == exists(run.preDest[n]) /\ ~isSymlink(run.preDest[n]) /\ ~MapHas(run.managed, n)

(***************************************************************************)
(* C1: a sync run never deletes or overwrites a destination path that was  *)
(* not created by an earlier sync run (the user's own directories).        *)
(***************************************************************************)
C1_NeverTouchesForeignPath ==
  Ran => \A n \in Plugins : run.preDest[n].by = "user" => dest[n] = run.preDest[n]

C3_ManifestOnlyOwnsSyncContent ==
  \A i \in 1..Len(manifest) :
    exists(dest[manifest[i].pluginName]) => dest[manifest[i].pluginName].by = "sync"

(***************************************************************************)
(* C4: idempotence.  A failure-free run that directly follows a completed  *)
(* run of the same mode, with nothing changed in between, reports          *)
(* linked = [] and removed = [] and leaves the manifest as it was.         *)
(***************************************************************************)
C4_Idempotent ==
  (Returned /\ run.afterSync /\ FailureFree) =>
    /\ run.linked = << >>
    /\ run.removed = << >>
    /\ manifest = run.preManifest /\ hasManifest = run.preHasManifest

(***************************************************************************)
(* C5: stale cleanup.  After a failure-free run, a plugin that was in the  *)
(* manifest, is no longer discovered and whose path was a link has no      *)
(* path, no manifest entry, and its record is in removed.                  *)
(***************************************************************************)
C5_StaleCleanup ==
  (Returned /\ FailureFree) =>
    \A n \in Plugins :
      (MapHas(run.managed, n) /\ ~NamedIn(run.discovered, n) /\ isSymlink(run.preDest[n])) =>
        /\ ~exists(dest[n])
        /\ ~MapHas(manifest, n)
        /\ InSeq(run.removed, MapGet(run.managed, n))

(***************************************************************************)
(* C6: every entry of the manifest a run writes is a desired plugin whose  *)
(* link/copy was created in that run, or a managed non-desired plugin      *)
(* whose removal failed in that run.                                       *)
(***************************************************************************)
C6_WrittenManifestEntries ==
  (Returned /\ Reconciled) =>
    \A i \in 1..Len(manifest) :
      LET n == manifest[i].pluginName
      IN  \/ /\ MapHas(run.desired, n)
             /\ manifest[i] = MapGet(run.desired, n)
             /\ InOps("create", n, TRUE)
          \/ /\ MapHas(run.managed, n)
             /\ ~MapHas(run.desired, n)
             /\ manifest[i] = MapGet(run.managed, n)
             /\ InOps("remove", n, FALSE)

(***************************************************************************)
(* C7: when the removal or the creation of one plugin's path fails, the    *)
(* run throws nothing, warns about that plugin, writes the manifest and    *)
(* returns ok = true.                                                      *)
(***************************************************************************)
C7_PartialFailureDoesNotAbort ==
  Reconciled =>
    \A n \in Plugins :
      (InOps("remove", n, FALSE) \/ InOps("create", n, FALSE)) =>
        /\ Returned /\ run.ok
        /\ WarnsPath(n)
        /\ InOps("save", "manifest", TRUE)

(***************************************************************************)
(* C8: collision policy.  When two packages provide the same plugin name,  *)
(* the Desired Set holds one record for it, the first discovered; at most  *)
(* one link is created for it; and a warning names the plugin.             *)
(***************************************************************************)
FirstDiscovered(n) ==
  run.discovered[CHOOSE i \in 1..Len(run.discovered) :
                   /\ run.discovered[i].pluginName = n
                   /\ \A j \in 1..(i - 1) : run.discovered[j].pluginName # n]
Collides(n) ==
  \E i, j \in 1..Len(run.discovered) :
    /\ run.discovered[i].pluginName = n /\ run.discovered[j].pluginName = n
    /\ run.discovered[i].packageName # run.discovered[j].packageName

C8_CollisionPolicy ==
  Reconciled =>
    \A n \in Plugins : Collides(n) =>
      /\ Cardinality({i \in 1..Len(run.desired) : run.desired[i].pluginName = n}) = 1
      /\ MapGet(run.desired, n) = FirstDiscovered(n)
      /\ Cardinality({i \in 1..Len(run.ops) : run.ops[i].op = "create" /\ run.ops[i].name = n}) <= 1
      /\ \A i \in 1..Len(run.linked) :
           run.linked[i].pluginName = n => run.linked[i] = FirstDiscovered(n)
      /\ InSeq(run.warnings, Warn("collision", n))

C8_Witness ==
  /\ Returned /\ Reconciled
  /\ \E n \in Plugins : /\ Collides(n)
                        /\ InOps("create", n, TRUE)
                        /\ dest[n].target = FirstDiscovered(n).targetDir

(***************************************************************************)
(* C9: mode switch.  A plugin with a native link and a manifest entry that *)
(* is still desired has, after a failure-free run in copy mode, a real     *)
(* directory copy of the desired targetDir and its current record in the   *)
(* manifest.                                                               *)
(***************************************************************************)
NativeLinked(n) ==
  /\ isSymlink(run.preDest[n]) /\ run.preDest[n].by = "sync"
  /\ MapHas(run.managed, n) /\ MapHas(run.desired, n)

C9_ModeSwitch ==
  (Returned /\ FailureFree /\ run.mode = "copy") =>
    \A n \in Plugins : NativeLinked(n) =>
      /\ dest[n] = CopiedDir(MapGet(run.desired, n).targetDir, TRUE)
      /\ MapHas(manifest, n)
      /\ MapGet(manifest, n) = MapGet(run.desired, n)

C9_Witness ==
  /\ Returned /\ FailureFree /\ run.mode = "copy"
  /\ \E n \in Plugins : NativeLinked(n) /\ dest[n].kind = "dir" /\ MapHas(manifest, n)

(***************************************************************************)
(* C10: short-circuit.  With nothing discovered and no manifest file the   *)
(* run returns ok with empty linked, removed and warnings and changes      *)
(* nothing on disk: no destination directory and no manifest are created.  *)
(***************************************************************************)
C10_ShortCircuit ==
  (Ran /\ Len(run.discovered) = 0 /\ ~run.preHasManifest) =>
    /\ Returned /\ run.ok
    /\ run.linked = << >> /\ run.removed = << >> /\ run.warnings = << >>
    /\ dest = run.preDest
    /\ destDirExists = run.preDestDirExists
    /\ ~hasManifest /\ manifest = run.preManifest

C10_Witness ==
  /\ Ran /\ Len(run.discovered) = 0 /\ ~run.preHasManifest
  /\ ~run.preDestDirExists /\ ~destDirExists /\ ~hasManifest /\ run.ok

(***************************************************************************)
(* C11: within one run the manifest is read at most once, before any       *)
(* removal or link action, and written at most once, after every removal   *)
(* and link action has been attempted; a run that does not reach the end   *)
(* writes no manifest.                                                     *)
(***************************************************************************)
OpIdx(kinds) == {i \in 1..Len(run.ops) : run.ops[i].op \in kinds}

C11_ManifestReadOnceWrittenOnce ==
  Ran =>
    /\ Cardinality(OpIdx({"load"})) <= 1
    /\ Cardinality(OpIdx({"save"})) <= 1
    /\ OpIdx({"remove", "create"}) # {} => OpIdx({"load"}) # {}
    /\ \A l \in OpIdx({"load"}) : \A a \in OpIdx({"remove", "create"}) : l < a
    /\ \A w \in OpIdx({"save"}) :
         /\ \A a \in OpIdx({"remove", "create"}) : a < w
         /\ w = Len(run.ops)
         /\ \A n \in MapKeys(run.desired) :
              InSeq(run.warnings, Warn("skipped", n)) \/ InOps("create", n, TRUE) \/ InOps("create", n, FALSE)
    /\ (run.outcome = "threw" \/ run.shortCircuit) =>
         /\ OpIdx({"save"}) = {}
         /\ manifest = run.preManifest /\ hasManifest = run.preHasManifest

C11_Witness ==
  /\ Returned /\ ~run.shortCircuit
  /\ OpIdx({"load"}) # {} /\ OpIdx({"remove"}) # {} /\ OpIdx({"create"}) # {} /\ OpIdx({"save"}) # {}
  /\ manifest # run.preManifest

(***************************************************************************)
(* C12: fatal failure.  When the destination directory cannot be created   *)
(* the sync entry point yields ok = false with error set, no link is       *)
(* removed or created, and no manifest is written.                         *)
(***************************************************************************)
MkdirFailed == Ran /\ InOps("mkdir", "dest", FALSE)

C12_FatalFailure ==
  MkdirFailed =>
    /\ ~linksSyncHandler(run).ok
    /\ linksSyncHandler(run).error # ""
    /\ ~run.ok
    /\ OpIdx({"remove", "create", "save"}) = {}
    /\ dest = run.preDest /\ destDirExists = run.preDestDirExists
    /\ manifest = run.preManifest /\ hasManifest = run.preHasManifest

C12_Witness ==
  /\ MkdirFailed /\ run.discovered # << >> /\ ~destDirExists /\ ~hasManifest
  /\ ~linksSyncHandler(run).ok

(***************************************************************************)
(* C13: first sync.  With no manifest, no pre-existing entries, no name    *)
(* collision and no failure: linked is the discovered records, removed and *)
(* warnings are empty, each record has its link or copy of its targetDir,  *)
(* the written manifest holds exactly those records, and a package without *)
(* a descriptor contributes nothing.                                       *)
(***************************************************************************)
NoCollision ==
  \A i, j \in 1..Len(run.discovered) :
    run.discovered[i].pluginName = run.discovered[j].pluginName => i = j
FirstSync ==
  /\ Returned /\ FailureFree /\ ~run.preHasManifest
  /\ \A n \in Plugins : ~exists(run.preDest[n])
  /\ NoCollision
ExpectedEntry(mode, pf, targetDir) ==
  IF mode = "copy" THEN CopiedDir(targetDir, TRUE)
  ELSE IF pf = "win32" THEN Junction(targetDir)
  ELSE Symlink(targetDir)

C13_FirstSync ==
  FirstSync =>
    /\ run.linked = run.discovered
    /\ run.removed = << >> /\ run.warnings = << >>
    /\ \A i \in 1..Len(run.discovered) :
         /\ dest[run.discovered[i].pluginName]
              = ExpectedEntry(run.mode, platform, run.discovered[i].targetDir)
         /\ run.discovered[i].targetDir = PackageDir(run.discovered[i].packageName)
         /\ run.discovered[i].packageName \in installed
         /\ Descriptors(run.discovered[i].packageName) # << >>
    /\ \A n \in Plugins : ~NamedIn(run.discovered, n) => ~exists(dest[n])
    /\ manifest = run.discovered
    /\ hasManifest = (run.discovered # << >>)

C13_Witness ==
  /\ FirstSync
  /\ {"pkg-a", "pkg-c"} \subseteq installed
  /\ run.linked = <<LinkRecord("Foo", "pkg-a", PackageDir("pkg-a"))>>
  /\ manifest = run.linked
  /\ exists(dest["Foo"])

(***************************************************************************)
(* C15: removal pass, foreign content.  On every platform, when a manifest *)
(* entry is not desired, its path exists and is no symlink or junction,    *)
(* and the mode is auto, the path is not deleted, a warning is recorded,   *)
(* and the manifest written by the run no longer contains the entry.       *)
(***************************************************************************)
StaleNonLink(n) ==
  /\ MapHas(run.managed, n) /\ ~MapHas(run.desired, n)
  /\ exists(run.preDest[n]) /\ ~isSymlink(run.preDest[n])

C15_ForeignContentKept ==
  (Returned /\ run.mode = "auto") =>
    \A n \in Plugins :
      StaleNonLink(n) =>
        /\ dest[n] = run.preDest[n]
        /\ InSeq(run.warnings, Warn("notLink", n))
        /\ ~MapHas(manifest, n)

(***************************************************************************)
(* C16: link creation failure.  When creating the link or copy for a       *)
(* desired plugin fails, the plugin is not in linked, a warning is         *)
(* recorded, and the manifest written by the run has no entry for it,      *)
(* whether or not it was in the previous manifest.                         *)
(***************************************************************************)
C16_CreateFailureNotRecorded ==
  Returned =>
    \A n \in Plugins :
      InOps("create", n, FALSE) =>
        /\ ~NamedIn(run.linked, n)
        /\ InSeq(run.warnings, Warn("createFailed", n))
        /\ ~MapHas(manifest, n)

(***************************************************************************)
(* C17: removal failure.  When removing a stale managed path fails, a      *)
(* warning is recorded, the record is not in removed, the manifest written *)
(* by the run still holds the entry unchanged, and the run that follows    *)
(* attempts the removal again.                                             *)
(***************************************************************************)
StaleRemoveFailed(n) ==
  /\ Returned /\ MapHas(run.managed, n) /\ ~MapHas(run.desired, n)
  /\ InOps("remove", n, FALSE)

C17_State ==
  \A n \in Plugins :
    (Ran /\ StaleRemoveFailed(n)) =>
      /\ InSeq(run.warnings, Warn("removeFailed", n))
      /\ ~NamedIn(run.removed, n)
      /\ dest[n] = run.preDest[n]
      /\ hasManifest /\ MapHas(manifest, n)
      /\ MapGet(manifest, n) = MapGet(run.managed, n)

C17_NextRun ==
  \A n \in Plugins :
    (Ran /\ StaleRemoveFailed(n) /\ nRuns' = nRuns + 1 /\ run'.mode = run.mode) =>
      /\ MapHas(run'.managed, n) /\ ~MapHas(run'.desired, n)
      /\ \E i \in 1..Len(run'.ops) : run'.ops[i].op = "remove" /\ run'.ops[i].name = n

C17_RemovalFailureRetried == [](C17_State) /\ [][C17_NextRun]_vars

C17_Witness ==
  /\ Ran /\ run.afterSync
  /\ StaleRemoveFailed("Foo")
  /\ run.preManifest = <<LinkRecord("Foo", "pkg-a", PackageDir("pkg-a"))>>
  /\ manifest = run.preManifest

(***************************************************************************)
(* C18: removal pass, path already gone.  When a manifest entry is not     *)
(* desired and its path does not exist, the record is in removed, no       *)
(* warning is recorded for it, and the manifest written by the run has no  *)
(* entry for it.                                                           *)
(***************************************************************************)
C18_GonePathDropped ==
  Returned =>
    \A n \in Plugins :
      (MapHas(run.managed, n) /\ ~MapHas(run.desired, n) /\ ~exists(run.preDest[n])) =>
        /\ InSeq(run.removed, MapGet(run.managed, n))
        /\ ~WarnsPath(n)
        /\ ~MapHas(manifest, n)

(***************************************************************************)
(* C19: retargeting.  When a plugin is in the loaded manifest, its path    *)
(* exists and it is desired, the old path is removed before the new one is *)
(* created; after a failure-free run the path is a link or copy of the     *)
(* current desired targetDir and the manifest record is the desired one.   *)
(***************************************************************************)
ManagedDesired(n) ==
  /\ Reconciled /\ MapHas(run.managed, n) /\ MapHas(run.desired, n)
  /\ exists(run.preDest[n])

C19_Retarget ==
  \A n \in Plugins :
    (Ran /\ ManagedDesired(n)) =>
      /\ \A j \in 1..Len(run.ops) :
           (run.ops[j].op = "create" /\ run.ops[j].name = n) =>
             \E i \in 1..(j - 1) : run.ops[i] = Op("remove", n, TRUE)
      /\ (Returned /\ FailureFree) =>
           /\ InOps("remove", n, TRUE) /\ InOps("create", n, TRUE)
           /\ dest[n] = ExpectedEntry(run.mode, platform, MapGet(run.desired, n).targetDir)
           /\ MapGet(run.desired, n).packageName \in installed
           /\ MapHas(manifest, n) /\ MapGet(manifest, n) = MapGet(run.desired, n)
           /\ InSeq(run.linked, MapGet(run.desired, n))

C19_Witness ==
  /\ Returned /\ FailureFree /\ ManagedDesired("Foo")
  /\ MapGet(run.managed, "Foo").packageName = "pkg-a"
  /\ MapGet(run.desired, "Foo").packageName = "pkg-b"
  /\ isSymlink(run.preDest["Foo"]) /\ run.preDest["Foo"].target = PackageDir("pkg-a")
  /\ dest["Foo"].target = PackageDir("pkg-b")

(***************************************************************************)
(* C14: with autoLinkUnrealPlugins on, every install, uninstall and update *)
(* whose npm command exits 0 runs a link sync, with the configured         *)
(* destination and link mode, before it returns; a non-zero exit fails the *)
(* operation and runs no sync; with the setting off no sync is run.        *)
(***************************************************************************)
PackageOp == pm.kind \in {"install", "uninstall", "update"}

C14_AutoLinkAfterNpm ==
  PackageOp =>
    /\ (pm.exitCode = 0 /\ pm.settings.autoLinkUnrealPlugins) =>
         /\ pm.synced /\ Ran
         /\ run.mode = pm.settings.linkMode
         /\ pm.destinationDir = (IF pm.settings.pluginsRootDirOverride = "null"
                                   THEN DefaultPluginsDir
                                   ELSE pm.settings.pluginsRootDirOverride)
         /\ run.discovered = findPluginsInNodeModules(installed)
         /\ (pm.kind = "uninstall" => pm.pkg \notin installed)
         /\ (pm.kind # "uninstall" => pm.pkg \in installed)
         /\ run.preDest = pm.pre.dest /\ run.preManifest = pm.pre.manifest
         /\ pm.threw = (run.outcome = "threw")
    /\ pm.exitCode # 0 =>
         /\ pm.threw /\ ~pm.synced /\ ~Ran
         /\ FsNow = pm.pre
    /\ ~pm.settings.autoLinkUnrealPlugins =>
         /\ ~pm.synced /\ ~Ran
         /\ FsNow = pm.pre

C14_Witness ==
  /\ PackageOp /\ pm.kind = "uninstall" /\ pm.exitCode = 0
  /\ pm.settings.autoLinkUnrealPlugins /\ pm.settings.linkMode = "copy"
  /\ pm.synced /\ Returned /\ run.removed # << >>
  /\ pm.destinationDir = OverrideDir

(***************************************************************************)
(* C20: two sync runs for the same destination directory are never in      *)
(* flight at the same time.                                                *)
(***************************************************************************)
SyncsInFlight == {c \in ui.calls : c.phase = "sync"}

C20_NoOverlappingSync ==
  ui # NoUi => Cardinality(SyncsInFlight) <= 1

(***************************************************************************)
(* The manifest file as raw content.  A file is missing, holds text that   *)
(* JSON.parse rejects, or holds a JSON value; the value is described by    *)
(* its shape and, when its links member is an array, by the items of that  *)
(* array.  An item is null or an object whose pluginName is absent, empty  *)
(* or a non-empty string.                                                  *)
(***************************************************************************)
MaxLinks == 2

JsonNull == [json |-> "null", has |-> FALSE, pluginName |-> "", packageName |-> "", targetDir |-> ""]
JsonRecord(has, pluginName, packageName, targetDir) ==
  [json |-> "object", has |-> has, pluginName |-> pluginName, packageName |-> packageName,
   targetDir |-> targetDir]
ItemOf(rec) == JsonRecord(TRUE, rec.pluginName, rec.packageName, rec.targetDir)
RecordOf(item) == LinkRecord(item.pluginName, item.packageName, item.targetDir)

Items ==
  { JsonNull,
    JsonRecord(FALSE, "", "pkg-a", PackageDir("pkg-a")),
    JsonRecord(TRUE, "", "pkg-a", PackageDir("pkg-a")),
    JsonRecord(TRUE, "Foo", "pkg-a", PackageDir("pkg-a")),
    JsonRecord(TRUE, "Foo", "pkg-b", PackageDir("pkg-b")),
    JsonRecord(TRUE, "Bar", "pkg-b", PackageDir("pkg-b")) }

\* shapes other than { links: [...] }: null, a number, an array, an object without
\* links, and links being null, a number, a string or an object
OtherShapes ==
  {"null", "number", "array", "object", "linksNull", "linksNumber", "linksString", "linksObject"}

RECURSIVE SeqsUpTo(_, _)
SeqsUpTo(S, k) ==
  IF k = 0 THEN {<< >>}
  ELSE SeqsUpTo(S, k - 1) \cup {Append(q, x) : q \in {p \in SeqsUpTo(S, k - 1) : Len(p) = k - 1}, x \in S}

JsonFile(shape, links) == [kind |-> "json", shape |-> shape, links |-> links]
RawFiles ==
  {[kind |-> "missing", shape |-> "none", links |-> << >>],
   [kind |-> "unparsable", shape |-> "none", links |-> << >>]}
  \cup {JsonFile(sh, << >>) : sh \in OtherShapes}
  \cup {JsonFile("linksArray", q) : q \in SeqsUpTo(Items, MaxLinks)}

\* types.ts:346-348, the loop over parsed.links
RECURSIVE CollectLinks(_, _)
CollectLinks(items, map) ==
  IF items = << >> THEN map
  ELSE CollectLinks(Tail(items),
         IF Head(items).json = "null" THEN map
         ELSE IF ~Head(items).has \/ Head(items).pluginName = "" THEN map
         ELSE MapSet(map, Head(items).pluginName, RecordOf(Head(items))))

\* types.ts:343-349, the body of the try: raises when the file cannot be read or
\* parsed, when the value is null (parsed.links of null) and when links is not iterable
readAndCollect(file) ==
  IF file.kind # "json" THEN [raised |-> TRUE, map |-> << >>]
  ELSE IF file.shape \in {"null", "linksNumber", "linksObject"} THEN [raised |-> TRUE, map |-> << >>]
  ELSE IF file.shape \in {"number", "array", "object", "linksNull", "linksString"}
    THEN [raised |-> FALSE, map |-> << >>]
  ELSE [raised |-> FALSE, map |-> CollectLinks(file.links, << >>)]

\* A plausible slip: the error is passed on.
catchLoad_Rethrows(r) == [threw |-> r.raised, map |-> r.map]

\* types.ts:350-352, catch { return new Map() }
catchLoad(r) == [threw |-> FALSE, map |-> IF r.raised THEN << >> ELSE r.map]

\* types.ts:341-353
loadManifestFile(file) == catchLoad(readAndCollect(file))

\* types.ts:355-358, the file saveManifest writes
WrittenFile(records) == JsonFile("linksArray", [i \in 1..Len(records) |-> ItemOf(records[i])])

DestEntries == {Absent, UserDir, Symlink(PackageDir("pkg-a")), CopiedDir(PackageDir("pkg-b"), TRUE)}

InitManifest ==
  /\ manifestFile \in RawFiles
  /\ nodeModules = NoLayout
  /\ scanned = NotScanned
  /\ copied = NotCopied
  /\ pm = NoPm
  /\ ui = NoUi
  /\ platform \in {"posix", "win32"}
  /\ installed \in {{}, {"pkg-a"}, {"pkg-b"}}
  /\ destDirExists = TRUE
  /\ dest \in [Plugins -> DestEntries]
  /\ hasManifest = (manifestFile.kind # "missing")
  /\ manifest = << >>
  /\ run = NoRun
  /\ nRuns = 0
  /\ nEnv = 0

\* types.ts:535-609 on a raw manifest file: exists(manifestPath) at 546, loadManifest
\* at 553, saveManifest at 606
SyncFile(mode, rmFail, mk) ==
  /\ run = NoRun
  /\ \E ld \in {loadManifestFile(manifestFile)} :
       \E r \in {syncUePluginLinks([destDirExists |-> destDirExists, dest |-> dest,
                                     hasManifest |-> manifestFile.kind # "missing",
                                     manifest |-> ld.map],
                                    installed, mode, platform, rmFail, mk, FALSE)} :
         IF ld.threw /\ ~r.shortCircuit
           THEN /\ run' = [outcome |-> "threw", ok |-> FALSE, shortCircuit |-> FALSE, mode |-> mode,
                           linked |-> << >>, removed |-> << >>, warnings |-> << >>,
                           ops |-> <<Op("mkdir", "dest", TRUE), Op("load", "manifest", FALSE)>>,
                           discovered |-> r.discovered, managed |-> << >>, desired |-> << >>,
                           preDestDirExists |-> destDirExists, preDest |-> dest,
                           preHasManifest |-> hasManifest, preManifest |-> manifest,
                           afterSync |-> FALSE, mkFailed |-> {},
                           preInstalled |-> installed, reached |-> {},
                           preFile |-> manifestFile]
                /\ UNCHANGED <<installed, destDirExists, dest, hasManifest, manifest, manifestFile>>
           ELSE /\ destDirExists' = r.destDirExists
                /\ dest' = r.dest
                /\ hasManifest' = r.hasManifest
                /\ manifest' = r.manifest
                /\ manifestFile' = IF r.outcome = "returned" /\ ~r.shortCircuit
                                     THEN WrittenFile(r.manifest) ELSE manifestFile
                /\ installed' = Surviving(installed, Reached(r, dest))
                /\ run' = [outcome |-> r.outcome, ok |-> r.ok, shortCircuit |-> r.shortCircuit,
                           mode |-> mode,
                           linked |-> r.linked, removed |-> r.removed, warnings |-> r.warnings,
                           ops |-> r.ops, discovered |-> r.discovered, managed |-> r.managed,
                           desired |-> r.desired,
                           preDestDirExists |-> destDirExists, preDest |-> dest,
                           preHasManifest |-> hasManifest, preManifest |-> manifest,
                           afterSync |-> FALSE, mkFailed |-> MkFailed(r, mk),
                           preInstalled |-> installed, reached |-> Reached(r, dest),
                           preFile |-> manifestFile]
  /\ nRuns' = nRuns + 1
  /\ UNCHANGED <<platform, nEnv, pm, ui, nodeModules, scanned, copied>>

NextManifest ==
  \E mode \in {"auto", "copy"} :
    \E f \in [Plugins -> Faults(mode)] : SyncFile(mode, RmFail(f), Mk(f))

SpecManifest == InitManifest /\ [][NextManifest]_vars

(***************************************************************************)
(* Vocabulary of the properties of discovery, read off the layout itself.  *)
(***************************************************************************)
Tree == nodeModules.tree
Scanned == scanned.outcome = "returned"
IsPrefix(p, q) == Len(p) <= Len(q) /\ SubSeq(q, 1, Len(p)) = p
Readable(p) == p \notin nodeModules.unreadable
IsDescriptorFile(e) == e.type = "file" /\ Len(e.name) > 1 /\ e.name[Len(e.name)] \in {".uplugin", ".UPLUGIN"}
DescriptorsAt(p) == {i \in 1..Len(Tree) : IsDescriptorFile(Tree[i]) /\ Tree[i].dir = p}
SubdirsOf(p) == {Append(p, Tree[i].name) : i \in {k \in 1..Len(Tree) : Tree[k].dir = p /\ Tree[k].type = "dir"}}
\* the packages of the layout: plain top-level entries and the children of scopes
PlainPackages ==
  {[name |-> JoinName(Tree[i].name), dir |-> <<Tree[i].name>>] :
     i \in {k \in 1..Len(Tree) : /\ Tree[k].dir = << >>
                                 /\ Tree[k].type \in {"dir", "symlink"}
                                 /\ Head(Tree[k].name) \notin {".", "@"}}}
ScopedPackages ==
  {[name |-> JoinName(Tree[i].dir[1]) \o "/" \o JoinName(Tree[i].name), dir |-> Append(Tree[i].dir, Tree[i].name)] :
     i \in {k \in 1..Len(Tree) : /\ Len(Tree[k].dir) = 1
                                 /\ Head(Tree[k].dir[1]) = "@"
                                 /\ Tree[k].type \in {"dir", "symlink"}
                                 /\ Head(Tree[k].name) # "."}}
LayoutPackages == PlainPackages \cup ScopedPackages
RecordsOf(recs, pkgName) == SelectSeq(recs, LAMBDA r : r.packageName = pkgName)
RecIdx(pkg) == {i \in 1..Len(scanned.records) : scanned.records[i].packageName = pkg.name}
\* the directories the first two strategies read for a package
PluginsDirOf(pkg) == Append(pkg.dir, <<"Plugins">>)
StrategyDirs(pkg) ==
  {pkg.dir, PluginsDirOf(pkg)} \cup {d \in SubdirsOf(PluginsDirOf(pkg)) : Head(d[Len(d)]) # "."}
RootHas(pkg) == DescriptorsAt(pkg.dir) # {}
PluginsHas(pkg) == \E d \in StrategyDirs(pkg) \ {pkg.dir} : DescriptorsAt(d) # {}

(***************************************************************************)
(* C22: discovery strategy priority.  For each package discovery stops at  *)
(* the first strategy that yields a result: with a descriptor in the       *)
(* package root only root-level descriptors are reported; with none in the *)
(* root but some in Plugins or its immediate sub-directories only those    *)
(* are reported; the recursive fallback runs only when both yield nothing. *)
(***************************************************************************)
C22_StrategyPriority ==
  (Scanned /\ nodeModules.unreadable = {}) =>
    \A pkg \in LayoutPackages :
      /\ RootHas(pkg) => \A i \in RecIdx(pkg) : scanned.dirs[i] = pkg.dir
      /\ (~RootHas(pkg) /\ PluginsHas(pkg)) =>
           \A i \in RecIdx(pkg) : scanned.dirs[i] \in StrategyDirs(pkg) \ {pkg.dir}
      /\ (\E i \in RecIdx(pkg) : scanned.dirs[i] \notin StrategyDirs(pkg)) =>
           (~RootHas(pkg) /\ ~PluginsHas(pkg))

(***************************************************************************)
(* C23: the recursive fallback scan terminates, reports no descriptor      *)
(* under a node_modules or .git directory, none lying more than 6          *)
(* directory levels below the package root, and at most one record per     *)
(* plugin name.                                                            *)
(***************************************************************************)
RelDir(pkg, i) == SubSeq(scanned.dirs[i], Len(pkg.dir) + 1, Len(scanned.dirs[i]))
FallbackIdx(pkg) == {i \in RecIdx(pkg) : scanned.dirs[i] \notin StrategyDirs(pkg)}
DirCount == Cardinality({i \in 1..Len(Tree) : Tree[i].type = "dir"})
\* a descriptor the fallback can reach: every directory on the way is readable, is
\* no node_modules, no dot directory, and lies at most 6 levels down
Reachable(pkg, d) ==
  /\ IsPrefix(pkg.dir, d) /\ Len(d) - Len(pkg.dir) <= 6
  /\ \A k \in (Len(pkg.dir) + 1)..Len(d) : d[k] # <<"node_modules">> /\ Head(d[k]) # "."
  /\ \A k \in Len(pkg.dir)..Len(d) : Readable(SubSeq(d, 1, k))

C23_FallbackBounded ==
  Scanned =>
    /\ scanned.iters <= DirCount + Cardinality(LayoutPackages)
    /\ \A pkg \in LayoutPackages :
         /\ \A i \in FallbackIdx(pkg) :
              /\ IsPrefix(pkg.dir, scanned.dirs[i])
              /\ ~HasComponent(RelDir(pkg, i), {<<"node_modules">>, <<".", "git">>})
              /\ Len(RelDir(pkg, i)) <= 6
              /\ \E k \in DescriptorsAt(scanned.dirs[i]) :
                   JoinName(SubSeq(Tree[k].name, 1, Len(Tree[k].name) - 1)) = scanned.records[i].pluginName
              /\ \A j \in FallbackIdx(pkg) :
                   scanned.records[j].pluginName = scanned.records[i].pluginName => i = j
         /\ (RecIdx(pkg) = FallbackIdx(pkg) /\ Readable(<<pkg.dir[1]>>)) =>
              \A k \in 1..Len(Tree) :
                (IsDescriptorFile(Tree[k]) /\ Reachable(pkg, Tree[k].dir)) =>
                  \E i \in RecIdx(pkg) :
                    scanned.records[i].pluginName = JoinName(SubSeq(Tree[k].name, 1, Len(Tree[k].name) - 1))

C23_Witness ==
  /\ Scanned /\ scanned.iters > 7
  /\ \E i \in 1..Len(scanned.dirs) : scanned.dirs[i] = Deep6 /\ scanned.records[i].pluginName = "Foo"
  /\ DescriptorsAt(Deep7) # {}
  /\ Len(scanned.records) = 1

(***************************************************************************)
(* C24: discovery is per-directory best effort.  When a package directory, *)
(* a scope directory or a sub-directory is unreadable, discovery raises no *)
(* error and still returns the plugins of every other readable package.    *)
(***************************************************************************)
AllReadable == findPluginsInNodeModulesFs([nodeModules EXCEPT !.unreadable = {}])
Unaffected(pkg) ==
  \A d \in nodeModules.unreadable : ~IsPrefix(d, pkg.dir) /\ ~IsPrefix(pkg.dir, d)

C24_BestEffort ==
  (scanned.outcome # "none" /\ nodeModules.rootKind = "dir" /\ nodeModules.unreadable # {}) =>
    /\ scanned.outcome = "returned"
    /\ \A pkg \in LayoutPackages :
         Unaffected(pkg) =>
           RecordsOf(scanned.records, pkg.name) = RecordsOf(AllReadable.records, pkg.name)

C24_Witness ==
  /\ Scanned /\ nodeModules.unreadable = {<<dScope>>}
  /\ DescriptorsAt(<<dScope, D("pkg-s")>>) # {}
  /\ scanned.records = <<LinkRecord("Bar", "pkg-a", "node_modules/pkg-a")>>

(***************************************************************************)
(* C25: top-level enumeration.  Entries beginning with '.' contribute no   *)
(* records; for an entry beginning with '@' each child directory not       *)
(* beginning with '.' is scanned as the package '<scope>/<name>' and the   *)
(* scope directory itself is never scanned as a package; every other entry *)
(* is scanned as a package named by the entry.                             *)
(***************************************************************************)
AsRecords(r, pkgName) ==
  [i \in 1..Len(r.found) |-> LinkRecord(r.found[i].pluginName, pkgName, PathStr(r.found[i].targetDir))]

C25_TopLevelEnumeration ==
  Scanned =>
    /\ \A i \in 1..Len(scanned.records) :
         /\ \E pkg \in LayoutPackages :
              scanned.records[i].packageName = pkg.name /\ IsPrefix(pkg.dir, scanned.dirs[i])
         /\ Head(scanned.dirs[i][1]) # "."
         /\ Head(scanned.dirs[i][1]) = "@" =>
              (Len(scanned.dirs[i]) >= 2 /\ Head(scanned.dirs[i][2]) # ".")
    /\ \A pkg \in LayoutPackages :
         Readable(<<pkg.dir[1]>>) =>
           RecordsOf(scanned.records, pkg.name)
             = AsRecords(findPluginsInPackageDirFs(nodeModules, pkg.dir), pkg.name)

C25_Witness ==
  /\ Scanned
  /\ DescriptorsAt(<<dHidden>>) \cup DescriptorsAt(<<dScope>>) \cup DescriptorsAt(<<dScope, dCache>>) # {}
  /\ scanned.records = <<LinkRecord("Foo", "@scope/pkg-s", "node_modules/@scope/pkg-s")>>

(***************************************************************************)
(* C26: within one package discovery returns at most one record per plugin *)
(* name, so the collision warning of the reconciler is emitted only when   *)
(* two different packages provide the same plugin name.                    *)
(***************************************************************************)
C26_OneRecordPerNameInPackage ==
  Scanned =>
    /\ \A i, j \in 1..Len(scanned.records) :
         (/\ scanned.records[i].packageName = scanned.records[j].packageName
          /\ scanned.records[i].pluginName = scanned.records[j].pluginName) => i = j
    /\ \A w \in 1..Len(scanned.warnings) :
         scanned.warnings[w].kind = "collision" =>
           \E i, j \in 1..Len(scanned.records) :
             /\ scanned.records[i].pluginName = scanned.warnings[w].pluginName
             /\ scanned.records[j].pluginName = scanned.warnings[w].pluginName
             /\ scanned.records[i].packageName # scanned.records[j].packageName

C26_Witness ==
  /\ Scanned
  /\ Cardinality(DescriptorsAt(<<D("pkg-a")>>) \cup DescriptorsAt(<<D("pkg-a"), D("Plugins"), D("Sub")>>)) = 2
  /\ scanned.records = <<LinkRecord("Foo", "pkg-a", "node_modules/pkg-a")>>
  /\ scanned.warnings = << >>

(***************************************************************************)
(* C28: copy mode filter.  The copy contains an entry if and only if the   *)
(* entry exists in the source directory and no component of its            *)
(* destination-relative path equals node_modules or .git; the source's own *)
(* path plays no part.                                                     *)
(***************************************************************************)
SourceEntries(src) ==
  {SubSeq(Append(Tree[i].dir, Tree[i].name), Len(src) + 1, Len(Tree[i].dir) + 1) :
     i \in {k \in 1..Len(Tree) : IsPrefix(src, Tree[k].dir)}}

C28_CopyFilter ==
  copied.outcome = "copied" =>
    copied.paths = {rel \in SourceEntries(copied.src) :
                      \A k \in 1..Len(rel) : rel[k] # <<"node_modules">> /\ rel[k] # <<".", "git">>}

C28_Witness ==
  /\ copied.outcome = "copied" /\ copied.src = <<D("pkg-a")>>
  /\ DescriptorsAt(<<D("pkg-a"), D("node_modules"), D("dep")>>) # {}
  /\ <<D("Plugins"), D("Sub")>> \in copied.paths
  /\ \E p \in copied.paths : Len(p) = 7
  /\ ~\E p \in copied.paths : p[1] \in {<<"node_modules">>, <<".", "git">>}

(***************************************************************************)
(* C21: junction creation on the junction platform in auto mode.  The      *)
(* creation of a link succeeds exactly when the mklink subprocess closes   *)
(* with exit code 0; a non-zero exit or a spawn error makes only that      *)
(* plugin fail (a warning, not in linked), and never ends the run: the     *)
(* remaining plugins are processed and the run returns ok = true.          *)
(***************************************************************************)
CreateTried(n) == InOps("create", n, TRUE) \/ InOps("create", n, FALSE)
JunctionRun == Ran /\ Reconciled /\ platform = "win32" /\ run.mode = "auto"

C21_JunctionFailureIsolated ==
  JunctionRun =>
    /\ \A n \in Plugins :
         /\ InOps("create", n, TRUE) <=> (CreateTried(n) /\ n \notin run.mkFailed)
         /\ InOps("create", n, TRUE) =>
              /\ dest[n] = Junction(MapGet(run.desired, n).targetDir)
              /\ InSeq(run.linked, MapGet(run.desired, n))
              /\ ~InSeq(run.warnings, Warn("createFailed", n))
         /\ InOps("create", n, FALSE) =>
              /\ InSeq(run.warnings, Warn("createFailed", n))
              /\ ~NamedIn(run.linked, n)
              /\ ~exists(dest[n])
    /\ (\E n \in Plugins : InOps("create", n, FALSE)) =>
         /\ ~Returned => (run.ops[Len(run.ops)].op = "remove" /\ ~run.ops[Len(run.ops)].ok)
         /\ Returned =>
              /\ run.ok
              /\ \A m \in MapKeys(run.desired) :
                   CreateTried(m) \/ InSeq(run.warnings, Warn("skipped", m))

C21_Witness ==
  /\ JunctionRun /\ Returned /\ run.ok
  /\ run.mkFailed = {"Foo"}
  /\ InOps("create", "Foo", FALSE) /\ InOps("create", "Bar", TRUE)
  /\ ~exists(dest["Foo"]) /\ dest["Bar"].kind = "junction"
  /\ \E i, j \in 1..Len(run.ops) : i < j /\ run.ops[i] = Op("create", "Foo", FALSE)
                                         /\ run.ops[j] = Op("create", "Bar", TRUE)

(***************************************************************************)
(* C29: the only paths a sync run creates, deletes or modifies in the      *)
(* destination directory are the manifest file and <destination>/<name>    *)
(* for the names of the loaded manifest or of the Desired Set; every other *)
(* entry of the destination directory is left as it was.                   *)
(***************************************************************************)
OwnNames == MapKeys(run.managed) \cup MapKeys(run.desired)
Touched(n) == dest[n] # run.preDest[n] \/ InOps("remove", n, TRUE) \/ InOps("create", n, TRUE)

C29_DestinationFrame ==
  Ran =>
    /\ \A n \in Plugins : Touched(n) => n \in OwnNames
    /\ \A i \in 1..Len(run.ops) :
         \/ run.ops[i].op \in {"mkdir", "load", "save"}
         \/ run.ops[i].op \in {"remove", "create"} /\ run.ops[i].name \in OwnNames

C29_Witness ==
  /\ Returned
  /\ OwnNames = {"Foo"}
  /\ run.preDest["Bar"] = UserDir /\ dest["Bar"] = UserDir
  /\ InOps("remove", "Foo", TRUE) /\ ~exists(dest["Foo"])
  /\ manifest # run.preManifest \/ InOps("save", "manifest", TRUE)

Corrupt(file) == file.kind = "unparsable" \/ (file.kind = "json" /\ file.shape # "linksArray")
WellFormed(file) == file.kind = "json" /\ file.shape = "linksArray"
Named(file) ==
  {i \in 1..Len(file.links) :
     file.links[i].json = "object" /\ file.links[i].has /\ file.links[i].pluginName # ""}
LastNamed(file, n) ==
  CHOOSE i \in Named(file) :
    /\ file.links[i].pluginName = n
    /\ \A j \in Named(file) : file.links[j].pluginName = n => j <= i

C27_ManifestLoadNeverFails ==
  Ran =>
    /\ ~InOps("load", "manifest", FALSE)
    /\ (run.preFile.kind = "missing" \/ Corrupt(run.preFile)) => run.managed = << >>
    /\ Corrupt(run.preFile) =>
         /\ Reconciled
         /\ \A n \in Plugins :
              exists(run.preDest[n]) =>
                /\ dest[n] = run.preDest[n]
                /\ ~InOps("remove", n, TRUE) /\ ~InOps("remove", n, FALSE)
                /\ ~CreateTried(n)
    /\ WellFormed(run.preFile) =>
         /\ Reconciled
         /\ MapKeys(run.managed) = {run.preFile.links[i].pluginName : i \in Named(run.preFile)}
         /\ Len(run.managed) = Cardinality(MapKeys(run.managed))
         /\ \A n \in MapKeys(run.managed) :
              MapGet(run.managed, n) = RecordOf(run.preFile.links[LastNamed(run.preFile, n)])

C27_Witness ==
  /\ Returned /\ run.ok
  /\ run.preFile.kind = "unparsable"
  /\ run.preDest["Foo"] = Symlink(PackageDir("pkg-a")) /\ dest["Foo"] = run.preDest["Foo"]
  /\ MapHas(run.desired, "Foo")
  /\ InSeq(run.warnings, Warn("skipped", "Foo"))
  /\ manifestFile = WrittenFile(<< >>)

====
